---- MODULE Spec2Model ----
(***************************************************************************)
(* Model of the day-7 filesystem reconstruction: the PutBack line          *)
(* iterator (putback_iter.rs), the FSDir/FSFile tree with incremental size *)
(* propagation (fsobject.rs) and the build_fs state machine with the two   *)
(* queries part_1 / part_2 (main.rs).                                      *)
(*                                                                         *)
(* Text is modelled as what it is: a line is a sequence of character codes *)
(* (ASCII), split(line) cuts it at whitespace, names are the resulting     *)
(* tokens and a size token is parsed digit by digit.  Rc<RefCell<..>>      *)
(* objects are cells of an arena `nodes`; a handle (FSDir / FSFile) is the *)
(* index of its cell, 0 stands for Option::None.                           *)
(***************************************************************************)
EXTENDS Integers, Sequences, FiniteSets, TLC

\* ------------------------------------------------------------------ bounds
\* Number of lines the underlying line source yields at most.
MaxLines == 6
\* The same for the specification with fairness.
MaxFairLines == 4
\* Number of put_back / next calls of the stand-alone PutBack harness.
MaxOps == 6

\* --------------------------------------------------------------- constants
device_size == 70000000
update_size == 30000000
part_1_limit == 100000

\* ------------------------------------------------------------------- text
\* Character codes of the literals the builder matches on.
Dollar == <<36>>
CdTok  == <<99, 100>>
LsTok  == <<108, 115>>
DirTok == <<100, 105, 114>>
DotDot == <<46, 46>>
Slash  == <<47>>
Space  == <<32>>

\* char::is_whitespace, restricted to ASCII.
White == {9, 10, 11, 12, 13, 32}

RECURSIVE SplitAcc(_, _, _)
SplitAcc(rest, cur, acc) ==
    IF rest = <<>>
    THEN IF cur = <<>> THEN acc ELSE Append(acc, cur)
    ELSE IF Head(rest) \in White
         THEN SplitAcc(Tail(rest), <<>>, IF cur = <<>> THEN acc ELSE Append(acc, cur))
         ELSE SplitAcc(Tail(rest), Append(cur, Head(rest)), acc)

\* fn split(line) -> Vec<&str>: line.split_whitespace().collect()
split(line) == SplitAcc(line, <<>>, <<>>)

RECURSIVE ParseDigits(_, _)
ParseDigits(ds, acc) ==
    IF ds = <<>> THEN [ok |-> TRUE, val |-> acc]
    ELSE IF Head(ds) \in 48..57
         THEN ParseDigits(Tail(ds), acc * 10 + (Head(ds) - 48))
         ELSE [ok |-> FALSE, val |-> 0]

\* str::parse::<usize>(): empty, a lone sign, a '-' or a non-digit is an
\* error; one leading '+' is accepted.  (Tokens of the model stay far below
\* 2^64, so PosOverflow does not arise.)
parse_usize(tok) ==
    IF tok = <<>> THEN [ok |-> FALSE, val |-> 0]
    ELSE IF Len(tok) = 1 /\ Head(tok) \in {43, 45} THEN [ok |-> FALSE, val |-> 0]
    ELSE IF Head(tok) = 43 THEN ParseDigits(Tail(tok), 0)
    ELSE ParseDigits(tok, 0)

\* Ord for String: byte-wise lexicographic.
RECURSIVE NameLess(_, _)
NameLess(a, b) ==
    IF b = <<>> THEN FALSE
    ELSE IF a = <<>> THEN TRUE
    ELSE IF Head(a) # Head(b) THEN Head(a) < Head(b)
    ELSE NameLess(Tail(a), Tail(b))

\* BTreeMap::iter(): the keys in ascending order.
RECURSIVE SortedKeys(_)
SortedKeys(S) ==
    IF S = {} THEN <<>>
    ELSE LET m == CHOOSE x \in S : \A y \in S \ {x} : NameLess(x, y)
         IN <<m>> \o SortedKeys(S \ {m})

\* ------------------------------------------------------------- input lines
NameA == <<97>>
NameB == <<98>>
Names == {NameA, NameB}

\* Size tokens "1", "100000", "45000000".
SizeToks == {<<49>>, <<49, 48, 48, 48, 48, 48>>, <<52, 53, 48, 48, 48, 48, 48, 48>>}

CdLine(target) == Dollar \o Space \o CdTok \o Space \o target
LsLine == Dollar \o Space \o LsTok
DirLine(name) == DirTok \o Space \o name
FileLine(sz, name) == sz \o Space \o name

\* Lines of the grammar.
GoodLines ==
    {CdLine(DotDot), CdLine(Slash), LsLine}
      \cup {CdLine(n) : n \in Names}
      \cup {DirLine(n) : n \in Names}
      \cup {FileLine(s, n) : s \in SizeToks, n \in Names}

\* Lines outside the grammar: "$ rm a", "x a" (no size), "" (blank),
\* "$ cd" (no target), "dir" (no name), "1" (no name), "$" (no verb),
\* "$ ls a" (an argument after ls).
BadLines ==
    { Dollar \o Space \o <<114, 109>> \o Space \o NameA,
      LsLine \o Space \o NameA,
      <<120>> \o Space \o NameA,
      <<>>,
      Dollar \o Space \o CdTok,
      DirTok,
      <<49>>,
      Dollar }

SourceLines == GoodLines \cup BadLines

\* A smaller choice of lines: "$ cd ..", "$ cd /", "$ cd a", "$ ls",
\* "dir a", "1 a", "$ rm a", "x a" and the blank line.
ShortLines ==
    { CdLine(DotDot), CdLine(Slash), CdLine(NameA), LsLine,
      DirLine(NameA), FileLine(<<49>>, NameA),
      Dollar \o Space \o <<114, 109>> \o Space \o NameA,
      <<120>> \o Space \o NameA,
      <<>> }

\* Option<io::Result<String>>
NoneItem == [some |-> FALSE, ok |-> FALSE, line |-> <<>>]
OkItem(l) == [some |-> TRUE, ok |-> TRUE, line |-> l]
ErrItem == [some |-> TRUE, ok |-> FALSE, line |-> <<>>]

VARIABLES
    nodes,      \* arena of FSDirImpl / FSFileImpl cells
    fs_stack,   \* Vec<FSDir>
    cur_dir,    \* FSDir
    lines,      \* PutBack: [iter |-> underlying source, buf |-> VecDeque]
    line,       \* the item lines.next() returned last in build_fs
    pc,         \* position of main / build_fs
    r1, r2,     \* outcome of part_1, part_2
    found,      \* the predicate and the list `dirs` of the latest traversal
    nops, last, putlog, replayed   \* history of the PutBack harness

vars == <<nodes, fs_stack, cur_dir, lines, line, pc, r1, r2, found, nops, last, putlog, replayed>>

fs_root == 1

\* ------------------------------------------------------- fsobject.rs: tree
\* FSDirImpl { name, size: 0, children: BTreeMap::new(), parent: None }
NewDirCell(name) ==
    [dir |-> TRUE, name |-> name, size |-> 0, parent |-> 0, children |-> <<>>]

\* FSFileImpl { name, size, parent: None }
NewFileCell(name, size) ==
    [dir |-> FALSE, name |-> name, size |-> size, parent |-> 0, children |-> <<>>]

\* FSDir::new(name): a fresh cell; its handle is Len(ns) + 1.
FSDir_new(ns, name) == Append(ns, NewDirCell(name))

\* FSFile::new(name, size)
FSFile_new(ns, name, size) == Append(ns, NewFileCell(name, size))

\* FSDir::contains
contains(ns, self, name) == name \in DOMAIN ns[self].children

\* Variant of get_dir that finds nothing.
get_dir_none(ns, self, name) == 0

\* FSDir::get_dir: None (0) if the name is absent or names a file.
get_dir(ns, self, name) ==
    IF name \in DOMAIN ns[self].children /\ ns[ns[self].children[name]].dir
    THEN ns[self].children[name]
    ELSE 0

\* Variant of set_parent that leaves the child without a parent.
set_parent_none(ns, child, parent) == ns

\* FSDir::set_parent / FSFile::set_parent
set_parent(ns, child, parent) == [ns EXCEPT ![child].parent = parent]

\* Variant of incr_size that stops at this directory.
incr_size_self(ns, self, size) == [ns EXCEPT ![self].size = @ + size]

\* FSDir::incr_size: this directory, then its parent chain.
RECURSIVE incr_size(_, _, _)
incr_size(ns, self, size) ==
    LET ns1 == [ns EXCEPT ![self].size = @ + size]
    IN IF ns[self].parent # 0 THEN incr_size(ns1, ns[self].parent, size) ELSE ns1

\* BTreeMap::insert: the last write wins.
MapInsert(ch, name, id) ==
    [n \in (DOMAIN ch) \cup {name} |-> IF n = name THEN id ELSE ch[n]]

\* FSDir::add_dir
add_dir(ns, self, d) ==
    LET ns1 == set_parent(ns, d, self)
        ns2 == incr_size(ns1, self, ns1[d].size)
    IN [ns2 EXCEPT ![self].children = MapInsert(@, ns2[d].name, d)]

\* FSDir::add_file
add_file(ns, self, f) ==
    LET ns1 == set_parent(ns, f, self)
        ns2 == incr_size(ns1, self, ns1[f].size)
    IN [ns2 EXCEPT ![self].children = MapInsert(@, ns2[f].name, f)]

\* FSDir::find_dirs_recurs_by; pred is a function from handles to BOOLEAN.
RECURSIVE find_dirs_recurs_by(_, _, _)
RECURSIVE FindOver(_, _, _, _)
\* Variant of the traversal that descends only into matching directories.
RECURSIVE FindOver_pruned(_, _, _, _)
FindOver_pruned(ns, self, keys, pred) ==
    IF keys = <<>> THEN <<>>
    ELSE LET c == ns[self].children[Head(keys)]
         IN (IF ns[c].dir /\ pred[c]
             THEN <<c>> \o find_dirs_recurs_by(ns, c, pred)
             ELSE <<>>)
            \o FindOver_pruned(ns, self, Tail(keys), pred)

FindOver(ns, self, keys, pred) ==
    IF keys = <<>> THEN <<>>
    ELSE LET c == ns[self].children[Head(keys)]
         IN (IF ns[c].dir
             THEN (IF pred[c] THEN <<c>> ELSE <<>>) \o find_dirs_recurs_by(ns, c, pred)
             ELSE <<>>)
            \o FindOver(ns, self, Tail(keys), pred)

find_dirs_recurs_by(ns, self, pred) ==
    FindOver(ns, self, SortedKeys(DOMAIN ns[self].children), pred)

\* --------------------------------------------------- putback_iter.rs: PutBack
\* The files the model reads: any file of at most MaxLines lines out of
\* SourceLines, or (file = "short") at most MaxFairLines lines out of
\* ShortLines.
SourceCap(it) == IF it.file = "short" THEN MaxFairLines ELSE MaxLines
SourceAlphabet(it) == IF it.file = "short" THEN ShortLines ELSE SourceLines

\* The underlying iterator (BufReader::lines): each call yields the next
\* line, a read error, or None; once exhausted it stays exhausted.
SourceNext(it, L) ==
    IF it.eof \/ it.pos >= SourceCap(it)
    THEN {[item |-> NoneItem, iter |-> [it EXCEPT !.eof = TRUE]]}
    ELSE {[item |-> OkItem(l), iter |-> [it EXCEPT !.pos = @ + 1]] : l \in L}
           \cup {[item |-> ErrItem, iter |-> [it EXCEPT !.pos = @ + 1]]}
           \cup {[item |-> NoneItem, iter |-> [it EXCEPT !.eof = TRUE]]}

\* PutBack::new(iter)
PutBack_new == [iter |-> [pos |-> 0, eof |-> FALSE, file |-> "any"], buf |-> <<>>]

\* Variant of put_back that pushes at the front of the buffer.
PutBack_push_front(pb, item) == [pb EXCEPT !.buf = <<item>> \o @]

\* PutBack::put_back: buf.push_back(item)
PutBack_put_back(pb, item) == [pb EXCEPT !.buf = Append(@, item)]

\* Variant of next that returns the front of the buffer and leaves it there.
PutBack_next_peek(pb, src) ==
    IF pb.buf # <<>>
    THEN [item |-> Head(pb.buf), pb |-> pb]
    ELSE [item |-> src.item, pb |-> [pb EXCEPT !.iter = src.iter]]

\* PutBack::next: buf.pop_front() if the buffer is not empty, else
\* iter.next(); src is what iter.next() does if it is called.
PutBack_next(pb, src) ==
    IF pb.buf # <<>>
    THEN [item |-> Head(pb.buf), pb |-> [pb EXCEPT !.buf = Tail(@)]]
    ELSE [item |-> src.item, pb |-> [pb EXCEPT !.iter = src.iter]]

\* ------------------------------------------------------------ main.rs: queries
NoResult == [kind |-> "none", why |-> "", val |-> 0]
OkResult(v, why) == [kind |-> "ok", why |-> why, val |-> v]
PanicResult(why) == [kind |-> "panic", why |-> why, val |-> 0]

\* dirs.iter().map(|d| d.size()).sum()
RECURSIVE SumSizes(_, _)
SumSizes(ns, dirs) ==
    IF dirs = <<>> THEN 0 ELSE ns[Head(dirs)].size + SumSizes(ns, Tail(dirs))

\* Variant of min_by_key that selects a directory of greatest size.
max_by_key(ns, dirs) ==
    IF dirs = <<>> THEN 0
    ELSE dirs[CHOOSE i \in 1..Len(dirs) :
                \A j \in 1..Len(dirs) : ns[dirs[i]].size >= ns[dirs[j]].size]

\* dirs.iter().min_by_key(|d| d.size()): None for no directory, else the
\* first directory of least size.
min_by_key(ns, dirs) ==
    IF dirs = <<>> THEN 0
    ELSE LET i == CHOOSE i \in 1..Len(dirs) :
                    /\ \A j \in 1..Len(dirs) : ns[dirs[i]].size <= ns[dirs[j]].size
                    /\ \A j \in 1..(i - 1) : ns[dirs[j]].size > ns[dirs[i]].size
         IN dirs[i]

\* usize a - b.  With a < b the build decides: overflow checks panic, and
\* without them the result wraps to 2^64 + (a - b); val then holds a - b.
usize_sub(a, b) ==
    IF a >= b
    THEN {[panic |-> FALSE, wrapped |-> FALSE, val |-> a - b]}
    ELSE {[panic |-> TRUE, wrapped |-> FALSE, val |-> 0],
          [panic |-> FALSE, wrapped |-> TRUE, val |-> a - b]}

\* a.saturating_sub(b); a wrapped b is 2^64 + b.val, above every a here.
saturating_sub(a, b) ==
    IF b.wrapped THEN 0 ELSE IF a >= b.val THEN a - b.val ELSE 0

\* part_1 after build_fs returned Ok(root)
part_1_dirs(ns) ==
    LET pred == [d \in 1..Len(ns) |-> ns[d].size <= part_1_limit]
    IN [pred |-> pred, dirs |-> find_dirs_recurs_by(ns, fs_root, pred)]

part_1(ns) == OkResult(SumSizes(ns, part_1_dirs(ns).dirs), "")

\* part_2 after build_fs returned Ok(root), for one value of avail
part_2_dirs(ns, avail) ==
    LET need == saturating_sub(update_size, avail)
        pred == [d \in 1..Len(ns) |-> ns[d].size >= need]
    IN [pred |-> pred, dirs |-> find_dirs_recurs_by(ns, fs_root, pred)]

part_2_with(ns, avail) ==
    IF avail.panic THEN PanicResult("overflow")
    ELSE LET dmin == min_by_key(ns, part_2_dirs(ns, avail).dirs)
         IN IF dmin = 0 THEN PanicResult("unwrap")
            ELSE OkResult(ns[dmin].size, IF avail.wrapped THEN "wrapped" ELSE "")

\* part_2: the outcomes the builds can produce
part_2(ns) ==
    {[res |-> part_2_with(ns, avail),
      found |-> IF avail.panic THEN [pred |-> <<>>, dirs |-> <<>>]
                ELSE part_2_dirs(ns, avail)]
       : avail \in usize_sub(device_size, ns[fs_root].size)}

\* ----------------------------------------------------------- main.rs: build_fs
Init ==
    /\ nodes = <<NewDirCell(Slash)>>
    /\ fs_stack = <<fs_root>>
    /\ cur_dir = fs_root
    /\ lines = PutBack_new
    /\ line = NoneItem
    /\ pc = "nav"
    /\ r1 = NoResult
    /\ r2 = NoResult
    /\ found = [pred |-> <<>>, dirs |-> <<>>]
    /\ nops = 0
    /\ last = [op |-> "none", item |-> NoneItem, ret |-> NoneItem]
    /\ putlog = <<>>
    /\ replayed = <<>>

hist == <<nops, last, putlog, replayed>>
tree == <<nodes, fs_stack, cur_dir>>

\* lines.next() of either loop
Rd(src) == PutBack_next(lines, src)
Src == SourceNext(lines.iter, SourceAlphabet(lines.iter))

\* while let Some(line) = lines.next(): None ends the loop, Ok(fs_root)
NavEnd ==
    /\ pc = "nav"
    /\ \E src \in Src : LET r == Rd(src) IN
        /\ ~r.item.some
        /\ lines' = r.pb
        /\ line' = r.item
        /\ pc' = "built"
    /\ UNCHANGED <<tree, r1, r2, found, hist>>

\* let line = line?;
NavIoErr ==
    /\ pc = "nav"
    /\ \E src \in Src : LET r == Rd(src) IN
        /\ r.item.some /\ ~r.item.ok
        /\ lines' = r.pb
        /\ line' = r.item
        /\ pc' = "error"
    /\ UNCHANGED <<tree, r1, r2, found, hist>>

\* parts[0], parts[1], parts[2] out of range, or one of the two panic!s
NavPanics(parts) ==
    IF Len(parts) = 0 THEN TRUE
    ELSE IF parts[1] # Dollar THEN TRUE
    ELSE IF Len(parts) < 2 THEN TRUE
    ELSE IF parts[2] = CdTok THEN Len(parts) < 3
    ELSE parts[2] # LsTok

NavPanic ==
    /\ pc = "nav"
    /\ \E src \in Src : LET r == Rd(src) IN
        /\ r.item.some /\ r.item.ok
        /\ NavPanics(split(r.item.line))
        /\ lines' = r.pb
        /\ line' = r.item
        /\ pc' = "panic"
    /\ UNCHANGED <<tree, r1, r2, found, hist>>

\* Variant of cd_up that pops the stack and stays in the directory.
cd_up_stay ==
    IF nodes[cur_dir].name # Slash /\ Len(fs_stack) >= 2
    THEN /\ fs_stack' = SubSeq(fs_stack, 1, Len(fs_stack) - 1)
         /\ pc' = "nav"
         /\ UNCHANGED cur_dir
    ELSE /\ pc' = "nav"
         /\ UNCHANGED <<fs_stack, cur_dir>>

\* "$" "cd" "..": leave the current directory unless its name is "/"
cd_up ==
    IF nodes[cur_dir].name # Slash
    THEN IF Len(fs_stack) >= 2
         THEN /\ fs_stack' = SubSeq(fs_stack, 1, Len(fs_stack) - 1)
              /\ cur_dir' = fs_stack[Len(fs_stack) - 1]
              /\ pc' = "nav"
         ELSE /\ pc' = "panic"
              /\ fs_stack' = <<>>
              /\ UNCHANGED cur_dir
    ELSE /\ pc' = "nav"
         /\ UNCHANGED <<fs_stack, cur_dir>>

CdUp ==
    /\ pc = "nav"
    /\ \E src \in Src : LET r == Rd(src) parts == split(r.item.line) IN
        /\ r.item.some /\ r.item.ok
        /\ ~NavPanics(parts)
        /\ parts[2] = CdTok /\ parts[3] = DotDot
        /\ lines' = r.pb
        /\ line' = r.item
        /\ cd_up
    /\ UNCHANGED <<nodes, r1, r2, found, hist>>

\* Variant of cd_root without the truncate(1).
cd_root_keep_stack ==
    /\ UNCHANGED fs_stack
    /\ cur_dir' = fs_root

\* "$" "cd" "/": fs_stack.truncate(1); cur_dir = fs_root
cd_root ==
    /\ fs_stack' = SubSeq(fs_stack, 1, IF Len(fs_stack) > 1 THEN 1 ELSE Len(fs_stack))
    /\ cur_dir' = fs_root

CdRoot ==
    /\ pc = "nav"
    /\ \E src \in Src : LET r == Rd(src) parts == split(r.item.line) IN
        /\ r.item.some /\ r.item.ok
        /\ ~NavPanics(parts)
        /\ parts[2] = CdTok /\ parts[3] = Slash
        /\ lines' = r.pb
        /\ line' = r.item
        /\ cd_root
    /\ UNCHANGED <<nodes, pc, r1, r2, found, hist>>

\* "$" "cd" name: enter the child directory of that name, or create it
cd_name(name) ==
    LET d == get_dir(nodes, cur_dir, name) IN
    IF d # 0
    THEN /\ fs_stack' = Append(fs_stack, d)
         /\ cur_dir' = d
         /\ UNCHANGED nodes
    ELSE LET ns1 == FSDir_new(nodes, name)
             n == Len(ns1)
         IN /\ nodes' = add_dir(ns1, cur_dir, n)
            /\ fs_stack' = Append(fs_stack, n)
            /\ cur_dir' = n

CdName ==
    /\ pc = "nav"
    /\ \E src \in Src : LET r == Rd(src) parts == split(r.item.line) IN
        /\ r.item.some /\ r.item.ok
        /\ ~NavPanics(parts)
        /\ parts[2] = CdTok /\ parts[3] \notin {DotDot, Slash}
        /\ lines' = r.pb
        /\ line' = r.item
        /\ cd_name(parts[3])
    /\ UNCHANGED <<pc, r1, r2, found, hist>>

\* "$" "ls": enter the listing loop
Ls ==
    /\ pc = "nav"
    /\ \E src \in Src : LET r == Rd(src) parts == split(r.item.line) IN
        /\ r.item.some /\ r.item.ok
        /\ ~NavPanics(parts)
        /\ parts[2] = LsTok
        /\ lines' = r.pb
        /\ line' = r.item
        /\ pc' = "ls"
    /\ UNCHANGED <<tree, r1, r2, found, hist>>

\* Variant of LsEnd that stays in the listing loop on None.
LsEnd_stay ==
    /\ pc = "ls"
    /\ \E src \in Src : LET r == Rd(src) IN
        /\ ~r.item.some
        /\ lines' = r.pb
        /\ line' = r.item
        /\ pc' = "ls"
    /\ UNCHANGED <<tree, r1, r2, found, hist>>

\* inner while let: None ends the listing loop; the outer loop reads next
LsEnd ==
    /\ pc = "ls"
    /\ \E src \in Src : LET r == Rd(src) IN
        /\ ~r.item.some
        /\ lines' = r.pb
        /\ line' = r.item
        /\ pc' = "nav"
    /\ UNCHANGED <<tree, r1, r2, found, hist>>

LsIoErr ==
    /\ pc = "ls"
    /\ \E src \in Src : LET r == Rd(src) IN
        /\ r.item.some /\ ~r.item.ok
        /\ lines' = r.pb
        /\ line' = r.item
        /\ pc' = "error"
    /\ UNCHANGED <<tree, r1, r2, found, hist>>

parts_ok(tok) == parse_usize(tok).ok

\* parts[0] or parts[1] out of range
LsPanics(parts) ==
    IF Len(parts) = 0 THEN TRUE
    ELSE IF parts[1] = DirTok THEN Len(parts) < 2
    ELSE IF parts[1] = Dollar THEN FALSE
    ELSE parts_ok(parts[1]) /\ Len(parts) < 2

LsPanic ==
    /\ pc = "ls"
    /\ \E src \in Src : LET r == Rd(src) IN
        /\ r.item.some /\ r.item.ok
        /\ LsPanics(split(r.item.line))
        /\ lines' = r.pb
        /\ line' = r.item
        /\ pc' = "panic"
    /\ UNCHANGED <<tree, r1, r2, found, hist>>

\* Variant of ls_dir without the contains() test.
ls_dir_unchecked(name) ==
    LET ns1 == FSDir_new(nodes, name)
    IN nodes' = add_dir(ns1, cur_dir, Len(ns1))

\* "dir" name: attach an empty directory unless the name is taken
ls_dir(name) ==
    IF ~contains(nodes, cur_dir, name)
    THEN LET ns1 == FSDir_new(nodes, name)
         IN nodes' = add_dir(ns1, cur_dir, Len(ns1))
    ELSE UNCHANGED nodes

LsDir ==
    /\ pc = "ls"
    /\ \E src \in Src : LET r == Rd(src) parts == split(r.item.line) IN
        /\ r.item.some /\ r.item.ok
        /\ ~LsPanics(parts)
        /\ parts[1] = DirTok
        /\ lines' = r.pb
        /\ line' = r.item
        /\ ls_dir(parts[2])
    /\ UNCHANGED <<fs_stack, cur_dir, pc, r1, r2, found, hist>>

\* "$": lines.put_back(Ok(line)); break
LsPutBack ==
    /\ pc = "ls"
    /\ \E src \in Src : LET r == Rd(src) parts == split(r.item.line) IN
        /\ r.item.some /\ r.item.ok
        /\ ~LsPanics(parts)
        /\ parts[1] = Dollar
        /\ lines' = PutBack_put_back(r.pb, OkItem(r.item.line))
        /\ line' = r.item
        /\ pc' = "nav"
    /\ UNCHANGED <<tree, r1, r2, found, hist>>

\* Variant of LsParseErr that skips the line and goes on listing.
LsParseErr_skip ==
    /\ pc = "ls"
    /\ \E src \in Src : LET r == Rd(src) parts == split(r.item.line) IN
        /\ r.item.some /\ r.item.ok
        /\ ~LsPanics(parts)
        /\ parts[1] \notin {DirTok, Dollar}
        /\ ~parse_usize(parts[1]).ok
        /\ lines' = r.pb
        /\ line' = r.item
        /\ pc' = "ls"
    /\ UNCHANGED <<tree, r1, r2, found, hist>>

\* size => size.parse::<usize>()? fails: build_fs returns the error
LsParseErr ==
    /\ pc = "ls"
    /\ \E src \in Src : LET r == Rd(src) parts == split(r.item.line) IN
        /\ r.item.some /\ r.item.ok
        /\ ~LsPanics(parts)
        /\ parts[1] \notin {DirTok, Dollar}
        /\ ~parse_usize(parts[1]).ok
        /\ lines' = r.pb
        /\ line' = r.item
        /\ pc' = "error"
    /\ UNCHANGED <<tree, r1, r2, found, hist>>

\* size name: attach a file of that size unless the name is taken
ls_file(size, name) ==
    IF ~contains(nodes, cur_dir, name)
    THEN LET ns1 == FSFile_new(nodes, name, size)
         IN nodes' = add_file(ns1, cur_dir, Len(ns1))
    ELSE UNCHANGED nodes

LsFile ==
    /\ pc = "ls"
    /\ \E src \in Src : LET r == Rd(src) parts == split(r.item.line) IN
        /\ r.item.some /\ r.item.ok
        /\ ~LsPanics(parts)
        /\ parts[1] \notin {DirTok, Dollar}
        /\ parse_usize(parts[1]).ok
        /\ lines' = r.pb
        /\ line' = r.item
        /\ ls_file(parse_usize(parts[1]).val, parts[2])
    /\ UNCHANGED <<fs_stack, cur_dir, pc, r1, r2, found, hist>>

\* main: part_1()?, then part_2()?.  Both call build_fs on the same file;
\* the tree they query is the one build_fs returned.
Part1 ==
    /\ pc = "built"
    /\ r1' = part_1(nodes)
    /\ found' = part_1_dirs(nodes)
    /\ pc' = "part_2"
    /\ UNCHANGED <<tree, lines, line, r2, hist>>

Part2 ==
    /\ pc = "part_2"
    /\ \E out \in part_2(nodes) :
        /\ r2' = out.res
        /\ found' = out.found
        /\ pc' = IF out.res.kind = "ok" THEN "exit" ELSE "panic"
    /\ UNCHANGED <<tree, lines, line, r1, hist>>

Next ==
    \/ NavEnd \/ NavIoErr \/ NavPanic \/ CdUp \/ CdRoot \/ CdName \/ Ls
    \/ LsEnd \/ LsIoErr \/ LsPanic \/ LsDir \/ LsPutBack \/ LsParseErr \/ LsFile
    \/ Part1 \/ Part2

Spec == Init /\ [][Next]_vars

\* The program is sequential and keeps running while a step is possible.
\* The line source of this specification is a short file.
InitFair ==
    /\ lines = [PutBack_new EXCEPT !.iter.file = "short"]
    /\ nodes = <<NewDirCell(Slash)>>
    /\ fs_stack = <<fs_root>>
    /\ cur_dir = fs_root
    /\ line = NoneItem
    /\ pc = "nav"
    /\ r1 = NoResult
    /\ r2 = NoResult
    /\ found = [pred |-> <<>>, dirs |-> <<>>]
    /\ nops = 0
    /\ last = [op |-> "none", item |-> NoneItem, ret |-> NoneItem]
    /\ putlog = <<>>
    /\ replayed = <<>>

SpecFair == InitFair /\ [][Next]_vars /\ WF_vars(Next)

\* ------------------------------------------- PutBack under arbitrary callers
\* Any interleaving of put_back and next on a PutBack over a source of two
\* different lines.  nops counts the calls, last is the latest call with its
\* argument or result, putlog the items put back so far, and replayed the
\* items next() returned without advancing the source.
PBLines == {LsLine, CdLine(Slash)}
PBItems == {OkItem(l) : l \in PBLines} \cup {ErrItem}

PB_PutBack ==
    /\ nops < MaxOps
    /\ \E x \in PBItems :
        /\ lines' = PutBack_put_back(lines, x)
        /\ last' = [op |-> "put_back", item |-> x, ret |-> NoneItem]
        /\ putlog' = Append(putlog, x)
    /\ nops' = nops + 1
    /\ UNCHANGED <<tree, line, pc, r1, r2, found, replayed>>

PB_Next ==
    /\ nops < MaxOps
    /\ \E src \in SourceNext(lines.iter, PBLines) : LET r == PutBack_next(lines, src) IN
        /\ lines' = r.pb
        /\ last' = [op |-> "next", item |-> NoneItem, ret |-> r.item]
        /\ replayed' = IF r.item.some /\ r.pb.iter = lines.iter
                       THEN Append(replayed, r.item) ELSE replayed
    /\ nops' = nops + 1
    /\ UNCHANGED <<tree, line, pc, r1, r2, found, putlog>>

NextPB == PB_PutBack \/ PB_Next

SpecPB == Init /\ [][NextPB]_vars

\* ================================================================ properties
\* Handles stored in the child mapping of d.
ChildIds(ns, d) == {ns[d].children[k] : k \in DOMAIN ns[d].children}

\* Everything transitively attached beneath d.
RECURSIVE Below(_, _)
Below(ns, d) == UNION {{c} \cup Below(ns, c) : c \in ChildIds(ns, d)}

\* The directories of the tree: the root and the directories beneath it.
TreeDirs == {fs_root} \cup {d \in Below(nodes, fs_root) : nodes[d].dir}

RECURSIVE SizeSum(_, _)
SizeSum(ns, S) ==
    IF S = {} THEN 0
    ELSE LET x == CHOOSE x \in S : TRUE IN ns[x].size + SizeSum(ns, S \ {x})

\* Query B's quantities as the specification defines them.
Used == nodes[fs_root].size
Available == device_size - Used
Needed == IF update_size > Available THEN update_size - Available ELSE 0

\* C1: in every state of the build every directory of the tree has a size
\* equal to the sum of the sizes of its direct children, which is the sum
\* of the sizes of the files transitively beneath it.
C1_SizeInvariant ==
    \A D \in TreeDirs :
        /\ nodes[D].size = SizeSum(nodes, ChildIds(nodes, D))
        /\ nodes[D].size = SizeSum(nodes, {f \in Below(nodes, D) : ~nodes[f].dir})

\* C2: when part_2 has run on a tree that has no directory of size >= needed
\* beneath the root, its outcome is a no-result value and not a panic.
C2_EmptyResultExplicit ==
    (/\ r2.kind # "none"
     /\ Used <= device_size
     /\ ~\E d \in TreeDirs \ {fs_root} : nodes[d].size >= Needed)
        => r2.kind # "panic"

\* C3: when part_2 has run with needed = 0 it returns a size, and that size
\* is the root's size when the root has no child directory.
C3_RootIsCandidate ==
    (r2.kind # "none" /\ Used <= device_size /\ Needed = 0)
        => /\ r2.kind = "ok"
           /\ (TreeDirs = {fs_root} => r2.val = nodes[fs_root].size)

\* C4: part_1 returns the sum of the sizes of all directories of the tree,
\* the root included, whose size is at most 100000.
C4_SumOfSmallDirs ==
    r1.kind # "none"
        => /\ r1.kind = "ok"
           /\ r1.val = SizeSum(nodes, {d \in TreeDirs : nodes[d].size <= part_1_limit})

\* C5: when used <= capacity and part_2 returns a size s, s is the size of
\* a directory of the tree, s >= needed, and no directory of the tree has a
\* size d with needed <= d < s.
C5_SmallestSufficient ==
    (r2.kind = "ok" /\ Used <= device_size)
        => /\ \E d \in TreeDirs : nodes[d].size = r2.val
           /\ r2.val >= Needed
           /\ ~\E d \in TreeDirs : Needed <= nodes[d].size /\ nodes[d].size < r2.val

\* part_2 has returned a directory smaller than the root for a positive
\* needed, in a tree with consistent sizes that has a directory below needed.
C5_Witness ==
    /\ r2.kind = "ok" /\ Used <= device_size /\ Needed > 0
    /\ C1_SizeInvariant
    /\ r2.val < Used
    /\ \E d \in TreeDirs : nodes[d].size < Needed

\* C6: the queries run to completion: part_1 returns a sum, and part_2
\* returns a size computed without arithmetic overflow or ends in the
\* empty-result case, nothing else.
C6_QueriesNeverFail ==
    /\ r1.kind # "none" => r1.kind = "ok"
    /\ r2.kind # "none" =>
         \/ (r2.kind = "ok" /\ r2.why = "")
         \/ (r2.kind = "panic" /\ r2.why = "unwrap")

\* C7: next() returns the oldest pending put-back item and leaves the source
\* alone while one is pending, advances the source only when the buffer is
\* empty, and the items put back come out in the order they were put back.
C7_NextRule ==
    (nops' = nops + 1 /\ last'.op = "next") =>
        IF lines.buf # <<>>
        THEN /\ last'.ret = Head(lines.buf)
             /\ lines'.buf = Tail(lines.buf)
             /\ lines'.iter = lines.iter
        ELSE /\ lines'.buf = <<>>
             /\ \E src \in SourceNext(lines.iter, PBLines) :
                    last'.ret = src.item /\ lines'.iter = src.iter

C8_PutBackThenNext ==
    [][(last.op = "put_back" /\ nops' = nops + 1 /\ last'.op = "next")
          => last'.ret = last.item]_vars

\* A listing line: "dir" name, or size name with a size that parses.
IsListing(parts) ==
    IF Len(parts) < 2 THEN FALSE
    ELSE IF parts[1] = Dollar THEN FALSE
    ELSE IF parts[1] = DirTok THEN TRUE
    ELSE parse_usize(parts[1]).ok

\* C9: in the listing loop a listing line whose name is already a child of
\* the current directory, of either kind, changes nothing of the tree.
C9_RelistingNoop ==
    [][(/\ pc = "ls"
        /\ lines' # lines
        /\ line'.some /\ line'.ok
        /\ IsListing(split(line'.line))
        /\ split(line'.line)[2] \in DOMAIN nodes[cur_dir].children)
          => (nodes' = nodes /\ fs_stack' = fs_stack /\ cur_dir' = cur_dir /\ pc' = "ls")]_vars

\* The listing loop has just read "dir a" where a is a file of the current
\* directory, so the line did not create it.
C9_Witness ==
    /\ pc = "ls"
    /\ line = OkItem(DirLine(NameA))
    /\ NameA \in DOMAIN nodes[cur_dir].children
    /\ ~nodes[nodes[cur_dir].children[NameA]].dir

\* C10: "$ cd /" makes the root the current directory and the stack [root];
\* "$ cd .." with the root as current directory changes nothing.
C10_RootIdentity ==
    [][/\ (pc = "nav" /\ lines' # lines /\ line' = OkItem(CdLine(Slash)))
            => (/\ cur_dir' = fs_root
                /\ fs_stack' = <<fs_root>>
                /\ nodes'[fs_root].parent = 0
                /\ pc' = "nav")
       /\ (pc = "nav" /\ lines' # lines /\ line' = OkItem(CdLine(DotDot)) /\ cur_dir = fs_root)
            => (/\ cur_dir' = cur_dir /\ fs_stack' = fs_stack /\ nodes' = nodes
                /\ pc' = "nav")]_vars

\* "$ cd /" was the third line, read two levels below the root.
C10_Witness ==
    /\ pc = "nav"
    /\ line = OkItem(CdLine(Slash))
    /\ lines.iter.pos = 3
    /\ cur_dir = fs_root /\ fs_stack = <<fs_root>>
    /\ \E d \in TreeDirs : nodes[d].parent \notin {0, fs_root}

\* The names on the way from the root down to d.
RECURSIVE PathOf(_, _)
PathOf(ns, d) ==
    IF ns[d].parent = 0 THEN <<>> ELSE Append(PathOf(ns, ns[d].parent), ns[d].name)

\* p comes before q in pre-order: p is a proper prefix of q (an ancestor),
\* or at the first place where they differ p has the lesser name.
RECURSIVE PathBefore(_, _)
PathBefore(p, q) ==
    IF q = <<>> THEN FALSE
    ELSE IF p = <<>> THEN TRUE
    ELSE IF Head(p) # Head(q) THEN NameLess(Head(p), Head(q))
    ELSE PathBefore(Tail(p), Tail(q))

\* C11: the list a traversal from the root returned holds every directory
\* beneath the root that satisfies the predicate, each once, also beneath a
\* directory that does not satisfy it, and it is in pre-order: a directory
\* before its descendants, siblings with their subtrees by ascending name.
C11_PreOrder ==
    found.pred # <<>> =>
        /\ {found.dirs[i] : i \in 1..Len(found.dirs)}
             = {d \in TreeDirs \ {fs_root} : found.pred[d]}
        /\ \A i, j \in 1..Len(found.dirs) :
             i < j => PathBefore(PathOf(nodes, found.dirs[i]), PathOf(nodes, found.dirs[j]))

\* A traversal returned a directory that lies beneath a directory it did not
\* return, and returned it before a directory that was created earlier.
C11_Witness ==
    /\ found.pred # <<>>
    /\ \E i \in 1..Len(found.dirs) :
         /\ nodes[found.dirs[i]].parent # fs_root
         /\ ~found.pred[nodes[found.dirs[i]].parent]
         /\ \E j \in 1..Len(found.dirs) : i < j /\ found.dirs[j] < found.dirs[i]

\* The tokens of the line a builder step has just read.
PartsRead == split(line.line)
ReadOk == line.some /\ line.ok

FatalPc == {"error", "panic"}

\* C12: a command line whose verb is neither cd nor ls, and a listing line
\* whose first token is neither dir nor a parseable integer, end build_fs
\* in an error outcome at that line with the tree as it was; after an error
\* outcome nothing more happens, so no later line is processed and no tree
\* is returned.
C12_MalformedFatal ==
    [][/\ (/\ pc = "nav" /\ ReadOk'
           /\ Len(PartsRead') >= 2 /\ PartsRead'[1] = Dollar
           /\ PartsRead'[2] \notin {CdTok, LsTok})
            => (pc' \in FatalPc /\ nodes' = nodes)
       /\ (/\ pc = "ls" /\ ReadOk'
           /\ Len(PartsRead') >= 1 /\ PartsRead'[1] \notin {DirTok, Dollar}
           /\ ~parse_usize(PartsRead'[1]).ok)
            => (pc' \in FatalPc /\ nodes' = nodes)
       /\ pc \notin FatalPc]_vars

\* The listing loop ended in an error at the line "x a" after it had
\* attached an entry.
C12_Witness ==
    /\ pc = "error"
    /\ line = OkItem(<<120>> \o Space \o NameA)
    /\ Len(nodes) > 1

\* The shapes of the transcript grammar.
IsCommandShape(parts) ==
    /\ Len(parts) >= 2 /\ parts[1] = Dollar
    /\ \/ (parts[2] = CdTok /\ Len(parts) = 3)
       \/ (parts[2] = LsTok /\ Len(parts) = 2)

IsListingShape(parts) ==
    /\ Len(parts) = 2
    /\ (parts[1] = DirTok \/ parse_usize(parts[1]).ok)

\* C13: every line that has not one of the shapes of the grammar ends
\* build_fs in a fatal error: a line the command loop reads that is no
\* command of the grammar, and a line the listing loop reads that is neither
\* a listing line of the grammar nor a command line (which it puts back).
C13_OnlyGrammar ==
    [][/\ (pc = "nav" /\ ReadOk' /\ ~IsCommandShape(PartsRead'))
            => pc' \in FatalPc
       /\ (/\ pc = "ls" /\ ReadOk'
           /\ ~(Len(PartsRead') >= 1 /\ PartsRead'[1] = Dollar)
           /\ ~IsListingShape(PartsRead'))
            => pc' \in FatalPc]_vars

\* C14: build_fs eventually stops, with Ok(fs_root) or with an error
\* outcome; a None from the line source is never an error: it ends the
\* command loop with success and the listing loop into the command loop,
\* and once the source is exhausted build_fs goes on to return the root.
C14_Terminates ==
    /\ <>(pc \in {"built", "error", "panic"})
    /\ [][(pc \in {"nav", "ls"} /\ ~line'.some)
             => (pc' = IF pc = "nav" THEN "built" ELSE "nav")]_vars
    /\ ((pc \in {"nav", "ls"} /\ lines.iter.eof) ~> (pc = "built"))

\* build_fs returned the root after a source of two lines, which ended
\* inside the ls block that attached a file.
C14_Witness ==
    /\ pc = "built"
    /\ lines.iter.eof /\ lines.iter.pos = 2 /\ lines.buf = <<>>
    /\ \E f \in ChildIds(nodes, fs_root) : ~nodes[f].dir

\* What the command loop does with the tokens of a command line.
CommandDone(parts) ==
    IF Len(parts) >= 2 /\ parts[2] = LsTok THEN pc' = "ls"
    ELSE IF Len(parts) >= 3 /\ parts[2] = CdTok
    THEN /\ pc' = "nav"
         /\ nodes'[cur_dir'].dir
         /\ IF parts[3] = DotDot
            THEN cur_dir' = IF cur_dir = fs_root THEN fs_root ELSE nodes[cur_dir].parent
            ELSE IF parts[3] = Slash THEN cur_dir' = fs_root
            ELSE /\ nodes'[cur_dir'].name = parts[3]
                 /\ nodes'[cur_dir'].parent = cur_dir
                 /\ fs_stack' = Append(fs_stack, cur_dir')
    ELSE pc' = "panic"

\* C15: each builder step reads one item.  With an empty buffer it is the
\* next item of the source, which advances by that one line; a command line
\* read in the listing loop is put back as it is, changes nothing of the
\* tree and returns to the command loop.  With a line pending, the reader is
\* the command loop, the item read is that line, the source stays where it
\* is, the buffer is empty afterwards and the command has been carried out.
C15_ReadRule ==
    pc \in {"nav", "ls"} =>
        /\ Len(lines.buf) <= 1
        /\ lines.buf # <<>> =>
             /\ pc = "nav"
             /\ line' = Head(lines.buf) /\ line' = line
             /\ lines'.buf = <<>>
             /\ lines'.iter = lines.iter
             /\ CommandDone(PartsRead')
        /\ lines.buf = <<>> =>
             /\ lines'.iter.pos = lines.iter.pos + (IF line'.some THEN 1 ELSE 0)
             /\ lines'.iter.eof = ~line'.some
             /\ IF pc = "ls" /\ ReadOk' /\ Len(PartsRead') >= 1 /\ PartsRead'[1] = Dollar
                THEN /\ lines'.buf = <<line'>>
                     /\ pc' = "nav"
                     /\ <<nodes, fs_stack, cur_dir>>' = <<nodes, fs_stack, cur_dir>>
                ELSE lines'.buf = <<>>

C15_EachLineOnce == [][C15_ReadRule]_vars

\* The third line, "$ cd a", ended the listing of the root, was put back
\* and has been carried out: a is the current directory, nothing is pending.
C15_Witness ==
    /\ pc = "nav"
    /\ line = OkItem(CdLine(NameA))
    /\ lines.iter.pos = 3 /\ lines.buf = <<>>
    /\ cur_dir # fs_root /\ nodes[cur_dir].name = NameA
    /\ fs_stack = <<fs_root, cur_dir>>
    /\ \E f \in ChildIds(nodes, fs_root) : ~nodes[f].dir

\* d and the directories on its parent chain up to the root.
RECURSIVE Ancestors(_, _)
Ancestors(ns, d) ==
    {d} \cup (IF ns[d].parent = 0 THEN {} ELSE Ancestors(ns, ns[d].parent))

\* after differs from before in sizes by s on D and its ancestors only.
SizesPropagated(before, after, D, s) ==
    \A d \in 1..Len(before) :
        after[d].size = before[d].size + (IF d \in Ancestors(before, D) THEN s ELSE 0)

\* Sizes of the children the operations are tried with.
ChildSizes == {0, 7}

\* C16: an insertion under D adds the child's size to D and to each
\* ancestor of D up to the root, once, and changes no other size.  It holds
\* of every insertion a builder step makes (D is the current directory), and
\* of add_dir and add_file applied to any directory of any reachable tree
\* with a child of any of the sizes tried.
C16_StepRule ==
    (pc \in {"nav", "ls"} /\ nodes' # nodes) =>
        LET n == Len(nodes') IN
        /\ n = Len(nodes) + 1
        /\ nodes'[n].parent = cur_dir
        /\ SizesPropagated(nodes, nodes', cur_dir, nodes'[n].size)

C16_OperationRule ==
    \A D \in TreeDirs : \A s \in ChildSizes :
        LET withDir == Append(nodes, [NewDirCell(NameB) EXCEPT !.size = s])
            withFile == FSFile_new(nodes, NameB, s)
            n == Len(nodes) + 1
        IN /\ SizesPropagated(nodes, add_dir(withDir, D, n), D, s)
           /\ SizesPropagated(nodes, add_file(withFile, D, n), D, s)
           /\ add_dir(withDir, D, n)[n].size = s
           /\ add_file(withFile, D, n)[n].size = s

C16_SizePropagation == []C16_OperationRule /\ [][C16_StepRule]_vars

\* A file of positive size has just been listed in a directory two levels
\* below the root, and its size has arrived at the root.
C16_Witness ==
    /\ pc = "ls"
    /\ ReadOk /\ IsListing(PartsRead) /\ PartsRead[1] # DirTok
    /\ ~nodes[Len(nodes)].dir /\ nodes[Len(nodes)].size > 0
    /\ nodes[Len(nodes)].parent = cur_dir
    /\ nodes[cur_dir].parent \notin {0, fs_root}
    /\ nodes[fs_root].size = nodes[Len(nodes)].size

\* The name of "$ cd <name>" when the tokens are that command, with a name
\* other than ".." and "/".
IsCdName(parts) ==
    /\ Len(parts) >= 3 /\ parts[1] = Dollar /\ parts[2] = CdTok
    /\ parts[3] \notin {DotDot, Slash}

\* The current directory has a child directory called name.
HasChildDir(name) ==
    /\ name \in DOMAIN nodes[cur_dir].children
    /\ nodes[nodes[cur_dir].children[name]].dir

\* C17: "$ cd <name>" enters the child directory called name when the
\* current directory has one, and the tree stays as it is; otherwise one new
\* empty directory called name is created, attached under the current
\* directory under that name, and entered, and nothing else of the tree is
\* touched; either way the destination is pushed on the stack.
C17_CdNameRule ==
    (pc = "nav" /\ ReadOk' /\ IsCdName(PartsRead')) =>
        LET name == PartsRead'[3] IN
        /\ pc' = "nav"
        /\ fs_stack' = Append(fs_stack, cur_dir')
        /\ IF HasChildDir(name)
           THEN /\ cur_dir' = nodes[cur_dir].children[name]
                /\ nodes' = nodes
           ELSE LET n == Len(nodes) + 1 IN
                /\ Len(nodes') = n
                /\ nodes'[n] = [NewDirCell(name) EXCEPT !.parent = cur_dir]
                /\ cur_dir' = n
                /\ DOMAIN nodes'[cur_dir].children
                     = DOMAIN nodes[cur_dir].children \cup {name}
                /\ nodes'[cur_dir].children[name] = n
                /\ \A k \in DOMAIN nodes[cur_dir].children \ {name} :
                     nodes'[cur_dir].children[k] = nodes[cur_dir].children[k]
                /\ [nodes' EXCEPT ![cur_dir].children = nodes[cur_dir].children]
                     = Append(nodes, nodes'[n])

C17_CdName == [][C17_CdNameRule]_vars

\* "$ cd a" has just entered a directory a that was there before: a later
\* cell exists, and a itself has children.
C17_Witness ==
    /\ pc = "nav" /\ lines.buf = <<>>
    /\ line = OkItem(CdLine(NameA))
    /\ nodes[cur_dir].name = NameA
    /\ cur_dir < Len(nodes)
    /\ DOMAIN nodes[cur_dir].children # {}
    /\ fs_stack = <<fs_root, cur_dir>>

\* Every entry of every child mapping is still there, under its name.
EntriesKept ==
    \A D \in 1..Len(nodes) : \A k \in DOMAIN nodes[D].children :
        /\ k \in DOMAIN nodes'[D].children
        /\ nodes'[D].children[k] = nodes[D].children[k]

\* No cell changes its name, its kind or, once it has one, its parent, and
\* no file changes its size.
CellsKept ==
    \A c \in 1..Len(nodes) :
        /\ nodes'[c].name = nodes[c].name
        /\ nodes'[c].dir = nodes[c].dir
        /\ nodes[c].parent # 0 => nodes'[c].parent = nodes[c].parent
        /\ ~nodes[c].dir => nodes'[c].size = nodes[c].size

\* C18: no builder step detaches, replaces or re-parents an attached entry,
\* and no step changes the size of a file.
C18_NoDetach ==
    [][(pc \in {"nav", "ls"})
          => (Len(nodes') >= Len(nodes) /\ EntriesKept /\ CellsKept)]_vars

\* fs_stack is the path from the root to the current directory.
StackInv ==
    /\ Len(fs_stack) >= 1
    /\ fs_stack[1] = fs_root
    /\ fs_stack[Len(fs_stack)] = cur_dir
    /\ \A i \in 2..Len(fs_stack) :
         /\ nodes[fs_stack[i]].dir
         /\ nodes[fs_stack[i]].parent = fs_stack[i - 1]
         /\ fs_stack[i] \in ChildIds(nodes, fs_stack[i - 1])

\* C19: in every state of the build the stack is not empty, starts at the
\* root, ends at the current directory, and each element after the first is
\* a child directory of the one before it; "$ cd .." read in a directory
\* other than the root does not panic, takes one element off the stack and
\* makes the parent of the directory left the current directory.
C19_CdUpRule ==
    (/\ pc = "nav" /\ ReadOk'
     /\ Len(PartsRead') >= 3 /\ PartsRead'[1] = Dollar
     /\ PartsRead'[2] = CdTok /\ PartsRead'[3] = DotDot
     /\ cur_dir # fs_root)
        => /\ pc' = "nav"
           /\ cur_dir' = nodes[cur_dir].parent
           /\ fs_stack' = SubSeq(fs_stack, 1, Len(fs_stack) - 1)
           /\ nodes' = nodes

C19_StackInvariant ==
    /\ []StackInv
    /\ [][C19_CdUpRule]_vars

\* "$ cd .." was the third line and has left a directory two levels below
\* the root for its parent.
C19_Witness ==
    /\ pc = "nav"
    /\ line = OkItem(CdLine(DotDot))
    /\ lines.iter.pos = 3
    /\ Len(fs_stack) = 2 /\ cur_dir # fs_root
    /\ DOMAIN nodes[cur_dir].children # {}

\* The parent chain of d arrives at the root within n steps.
RECURSIVE ReachesRoot(_, _, _)
ReachesRoot(ns, d, n) ==
    IF d = fs_root THEN TRUE
    ELSE IF n = 0 \/ ns[d].parent = 0 THEN FALSE
    ELSE ReachesRoot(ns, ns[d].parent, n - 1)

\* C20: the root has no parent; every entry stored in the child mapping of
\* a directory D under key k has the name k and the parent D; and from
\* every directory of the tree the parent chain arrives at the root in
\* fewer steps than there are cells.
C20_ParentChild ==
    /\ nodes[fs_root].parent = 0
    /\ \A D \in TreeDirs : \A k \in DOMAIN nodes[D].children :
         LET c == nodes[D].children[k] IN
         /\ nodes[c].name = k
         /\ nodes[c].parent = D
    /\ \A d \in TreeDirs : ReachesRoot(nodes, d, Len(nodes) - 1)
    /\ \A D \in TreeDirs : fs_root \notin ChildIds(nodes, D)

\* The tree has a file two levels below the root and a directory with two
\* children.
C20_Witness ==
    /\ \E f \in Below(nodes, fs_root) :
         /\ ~nodes[f].dir
         /\ nodes[f].parent \notin {0, fs_root}
         /\ nodes[nodes[f].parent].parent \notin {0, fs_root}
    /\ \E D \in TreeDirs : Cardinality(DOMAIN nodes[D].children) >= 2

====
